---- MODULE Spec2Model ----
(***************************************************************************)
(* Model of homekit_steam_user_switcher.py: the Television accessory       *)
(* (power, active input, auto-restore timer), the input catalog built at   *)
(* start-up, and the Steam registry helpers (get_account / set_account).   *)
(*                                                                         *)
(* Python strings are sequences of one-character strings, so that          *)
(* slugification and VDF escaping are computed character by character.     *)
(***************************************************************************)
EXTENDS Integers, Sequences, FiniteSets, TLC

(***************************************************************************)
(* Bounds of the model.                                                    *)
(***************************************************************************)
\* longest accounts registry (number of entries in loginusers.vdf)
MaxAccounts == 2
\* the clock stops advancing here
MaxTime == 3
\* number of call_later calls the event loop accepts
MaxTimers == 2

\* delay of the auto-restore timer, seconds (call_later(2.0, ...))
RestoreDelay == 2

(***************************************************************************)
(* Strings.                                                                *)
(***************************************************************************)
\* Python's None where a string is expected (not a sequence of characters)
None == <<"None">>

S_bob99 == <<"b", "o", "b", "9", "9">>
S_Bob == <<"B", "o", "b">>
S_carol_w == <<"c", "a", "r", "o", "l", "_", "w">>
\* an account name with a backslash followed by the letter n
S_q_n == <<"q", "\\", "n">>
S_zed == <<"z", "e", "d">>
S_Unknown == <<"U", "n", "k", "n", "o", "w", "n">>
S_dash == <<"-">>
S_empty == <<>>
S_SteamUser1 == <<"S", "t", "e", "a", "m", " ", "U", "s", "e", "r", " ", "1">>
S_SteamUser2 == <<"S", "t", "e", "a", "m", " ", "U", "s", "e", "r", " ", "2">>
S_user1 == <<"u", "s", "e", "r", "1">>
S_user2 == <<"u", "s", "e", "r", "2">>
S_TV_1 == <<" ", "T", "V", " ", "1">>
S_blank == <<" ">>
S_HDMI == <<"H", "D", "M", "I">>

\* str.lower() on the upper-case characters that occur in the model
UpperToLower == [c \in {"B", "D", "H", "I", "M", "S", "T", "U", "V"} |->
                   CASE c = "B" -> "b" [] c = "D" -> "d" [] c = "H" -> "h"
                     [] c = "I" -> "i" [] c = "M" -> "m" [] c = "S" -> "s"
                     [] c = "T" -> "t" [] c = "U" -> "u" [] c = "V" -> "v"]

lower_char(c) == IF c \in DOMAIN UpperToLower THEN UpperToLower[c] ELSE c

\* str.isalnum() on one (lower-cased) character
isalnum(c) ==
    c \in {"a", "b", "c", "d", "e", "h", "i", "k", "l", "m", "n", "o", "q",
           "r", "s", "t", "u", "v", "w", "z", "1", "2", "9"}

RECURSIVE _slugify_label(_)
\* "".join(ch for ch in label.lower() if ch.isalnum())
_slugify_label(label) ==
    IF label = <<>> THEN <<>>
    ELSE LET ch == lower_char(Head(label))
         IN  (IF isalnum(ch) THEN <<ch>> ELSE <<>>) \o _slugify_label(Tail(label))

RECURSIVE lstrip(_)
lstrip(s) == IF s # <<>> /\ Head(s) = " " THEN lstrip(Tail(s)) ELSE s

RECURSIVE rstrip(_)
rstrip(s) ==
    IF s # <<>> /\ s[Len(s)] = " " THEN rstrip(SubSeq(s, 1, Len(s) - 1)) ELSE s

\* str.strip()
strip(s) == rstrip(lstrip(s))

(***************************************************************************)
(* The vdf library as set_account / get_account use it: vdf.dump writes    *)
(* every string value escaped, vdf.load unescapes it.  A parsed file is a  *)
(* tree: the set of its sections (paths of keys) and its leaves (path ->   *)
(* string).                                                                *)
(***************************************************************************)
\* character -> the letter written after the backslash
EscapeCode == [c \in {"\\", "\"", "?", "\n"} |->
                 CASE c = "\\" -> "\\" [] c = "\"" -> "\"" [] c = "?" -> "?"
                   [] c = "\n" -> "n"]

\* letter after a backslash -> the character it stands for
UnescapeCode == [c \in {"\\", "\"", "?", "n"} |->
                   CASE c = "\\" -> "\\" [] c = "\"" -> "\"" [] c = "?" -> "?"
                     [] c = "n" -> "\n"]

RECURSIVE vdf_escape(_)
vdf_escape(s) ==
    IF s = <<>> THEN <<>>
    ELSE (IF Head(s) \in DOMAIN EscapeCode
             THEN <<"\\", EscapeCode[Head(s)]>>
             ELSE <<Head(s)>>) \o vdf_escape(Tail(s))

RECURSIVE vdf_unescape(_)
\* one left-to-right pass over the escape sequences
vdf_unescape(s) ==
    IF s = <<>> THEN <<>>
    ELSE IF Len(s) >= 2 /\ s[1] = "\\" /\ s[2] \in DOMAIN UnescapeCode
         THEN <<UnescapeCode[s[2]]>> \o vdf_unescape(SubSeq(s, 3, Len(s)))
         ELSE <<Head(s)>> \o vdf_unescape(Tail(s))

EmptyVals == [p \in {} |-> <<>>]
EmptyTree == [secs |-> {}, vals |-> EmptyVals]
\* an empty file: vdf.load gives an empty mapping
EmptyText == [kind |-> "vdf", secs |-> {}, vals |-> EmptyVals]
\* a file cut in the middle of a section: vdf.load raises SyntaxError
PartialText == [kind |-> "partial", secs |-> {}, vals |-> EmptyVals]
\* a file that is not VDF at all
GarbageText == [kind |-> "garbage", secs |-> {}, vals |-> EmptyVals]

\* vdf.dump(tree, f, pretty=True): the text of a tree
vdf_dump(tree) ==
    [kind |-> "vdf", secs |-> tree.secs,
     vals |-> [p \in DOMAIN tree.vals |-> vdf_escape(tree.vals[p])]]

\* with open(path, 'r') as f: vdf.load(f)
vdf_load(file) ==
    IF ~file.exists THEN [exc |-> "FileNotFoundError", tree |-> EmptyTree]
    ELSE IF file.text.kind # "vdf" THEN [exc |-> "SyntaxError", tree |-> EmptyTree]
    ELSE [exc |-> "none",
          tree |-> [secs |-> file.text.secs,
                    vals |-> [p \in DOMAIN file.text.vals |->
                                vdf_unescape(file.text.vals[p])]]]

\* registry['Registry']['HKCU']['Software']['Valve']['Steam']['AutoLoginUser']
AutoLoginUser ==
    <<"Registry", "HKCU", "Software", "Valve", "Steam", "AutoLoginUser">>

\* an unrelated leaf of the same section
Language == <<"Registry", "HKCU", "Software", "Valve", "Steam", "language">>

\* the five nested sections above the leaf are all present
HasSteamSection(tree) ==
    \A n \in 1..(Len(AutoLoginUser) - 1) : SubSeq(AutoLoginUser, 1, n) \in tree.secs

\* def get_account(): the selected account, or the exception raised
get_account(file) ==
    LET r == vdf_load(file)
    IN  IF r.exc # "none" THEN [exc |-> r.exc, value |-> None]
        ELSE IF ~HasSteamSection(r.tree) \/ AutoLoginUser \notin DOMAIN r.tree.vals
             THEN [exc |-> "KeyError", value |-> None]
        ELSE [exc |-> "none", value |-> r.tree.vals[AutoLoginUser]]

\* an assignment that lands on another leaf of the Steam section
AssignWrongKey(tree, account) ==
    [secs |-> tree.secs,
     vals |-> [p \in DOMAIN tree.vals \cup {Language} |->
                 IF p = Language THEN account ELSE tree.vals[p]]]

\* an assignment that rebuilds the section with the one leaf in it
AssignDropsSiblings(tree, account) ==
    [secs |-> tree.secs, vals |-> [p \in {AutoLoginUser} |-> account]]

\* registry[...]['AutoLoginUser'] = account
AssignAutoLoginUser(tree, account) ==
    [secs |-> tree.secs,
     vals |-> [p \in DOMAIN tree.vals \cup {AutoLoginUser} |->
                 IF p = AutoLoginUser THEN account ELSE tree.vals[p]]]

\* what can go wrong while writing the file back: nothing; open(REGISTRY, 'w')
\* is refused; the write fails after open() truncated the file, with nothing
\* or with a part of the text on disk
IOFaults == {"none", "open_w", "dump_empty", "dump_partial"}

\* set_account down to the assignment: the tree in memory, or the exception
set_account_read(file, account) ==
    LET r == vdf_load(file)
    IN  IF r.exc # "none" THEN [exc |-> r.exc, tree |-> EmptyTree]
        ELSE IF ~HasSteamSection(r.tree) THEN [exc |-> "KeyError", tree |-> EmptyTree]
        ELSE [exc |-> "none", tree |-> AssignAutoLoginUser(r.tree, account)]

\* a write-back that reads the file again and puts only the new leaf in it
SetAccountWriteMerges(file, tree, fault) ==
    LET r == vdf_load(file)
    IN  IF fault = "open_w" THEN [file |-> file, exc |-> "PermissionError"]
        ELSE IF fault = "dump_empty"
             THEN [file |-> [exists |-> TRUE, text |-> EmptyText], exc |-> "OSError"]
        ELSE IF fault = "dump_partial"
             THEN [file |-> [exists |-> TRUE, text |-> PartialText], exc |-> "OSError"]
        ELSE [file |-> [exists |-> TRUE,
                        text |-> vdf_dump(AssignAutoLoginUser(
                                     IF r.exc = "none" THEN r.tree ELSE tree,
                                     tree.vals[AutoLoginUser]))],
              exc |-> "none"]

\* with open(REGISTRY, 'w') as f: vdf.dump(registry, f, pretty=True)
set_account_write(file, tree, fault) ==
    IF fault = "open_w" THEN [file |-> file, exc |-> "PermissionError"]
    ELSE IF fault = "dump_empty"
         THEN [file |-> [exists |-> TRUE, text |-> EmptyText], exc |-> "OSError"]
    ELSE IF fault = "dump_partial"
         THEN [file |-> [exists |-> TRUE, text |-> PartialText], exc |-> "OSError"]
    ELSE [file |-> [exists |-> TRUE, text |-> vdf_dump(tree)], exc |-> "none"]

\* def set_account(account): the file afterwards, and the exception raised
set_account(file, account, fault) ==
    LET m == set_account_read(file, account)
    IN  IF m.exc # "none" THEN [file |-> file, exc |-> m.exc]
        ELSE set_account_write(file, m.tree, fault)

(***************************************************************************)
(* Start-up (__main__): the input catalog and the initial identifier.      *)
(* cli_inputs is cli.inputs.split(","), or <<>> when --inputs is empty;    *)
(* login_users is loginusers.vdf: whether get_accounts() can read it, and  *)
(* the sequence accounts.values() of its 'users' section, each a dict.     *)
(***************************************************************************)
\* dict.get(key): None when the key is absent
dict_get(d, key) == IF key \in DOMAIN d THEN d[key] ELSE None

\* Python truthiness of an optional string
truthy(s) == s # None /\ s # <<>>

\* the index enumerate(accounts.values(), start=1) pairs with the entry at
\* position pos: every entry is counted, also one that is then skipped
enumerate_index(items, pos) == pos

RECURSIVE AccountItems(_, _, _)
\* for idx, account in enumerate(accounts.values(), start=1): ... items.append
AccountItems(accounts, pos, items) ==
    IF pos > Len(accounts) THEN items
    ELSE LET account == accounts[pos]
             idx == enumerate_index(items, pos)
             acc_name == dict_get(account, "AccountName")
             persona == dict_get(account, "PersonaName")
         IN  IF ~truthy(acc_name)
             THEN AccountItems(accounts, pos + 1, items)
             ELSE AccountItems(accounts, pos + 1,
                      Append(items, [identifier |-> idx,
                                     label |-> IF truthy(persona) THEN persona
                                               ELSE acc_name,
                                     slug |-> acc_name]))

RECURSIVE StrippedLabels(_)
\* labels = [s.strip() for s in cli.inputs.split(",") if s.strip()]
StrippedLabels(parts) ==
    IF parts = <<>> THEN <<>>
    ELSE (IF strip(Head(parts)) # <<>> THEN <<strip(Head(parts))>> ELSE <<>>)
         \o StrippedLabels(Tail(parts))

\* [(idx, label, _slugify_label(label)) for idx, label in enumerate(labels, start=1)]
OverrideItems(labels) ==
    [idx \in 1..Len(labels) |->
        [identifier |-> idx, label |-> labels[idx],
         slug |-> _slugify_label(labels[idx])]]

\* the generic inputs used when the Steam users cannot be read
FallbackItems ==
    <<[identifier |-> 1, label |-> S_SteamUser1, slug |-> S_user1],
      [identifier |-> 2, label |-> S_SteamUser2, slug |-> S_user2]>>

\* for i, _, slug in items: if slug == current: initial_identifier = i; break
\* (an optional integer is a set with at most one element)
MatchCurrent(items, current) ==
    LET hits == {k \in 1..Len(items) : items[k].slug = current}
    IN  IF hits = {} THEN {}
        ELSE {items[CHOOSE k \in hits : \A j \in hits : k <= j].identifier}

\* a __main__ that does not raise when no account is usable
ResolveInputsKeepsEmpty(cli_inputs, login_users, file) ==
    IF cli_inputs # <<>>
    THEN [mode |-> "override",
          items |-> OverrideItems(StrippedLabels(cli_inputs)),
          initial_identifier |-> {}]
    ELSE IF ~login_users.readable
         THEN [mode |-> "fallback", items |-> FallbackItems,
               initial_identifier |-> {}]
    ELSE LET items == AccountItems(login_users.users, 1, <<>>)
             cur == get_account(file)
         IN  [mode |-> IF items = <<>> THEN "fallback" ELSE "accounts",
              items |-> items,
              initial_identifier |->
                  IF cur.exc # "none" THEN {}
                  ELSE MatchCurrent(items, cur.value)]

\* the __main__ block down to the arguments of run()
ResolveInputs(cli_inputs, login_users, file) ==
    IF cli_inputs # <<>>
    THEN [mode |-> "override",
          items |-> OverrideItems(StrippedLabels(cli_inputs)),
          initial_identifier |-> {}]
    ELSE IF ~login_users.readable
         THEN [mode |-> "fallback", items |-> FallbackItems,
               initial_identifier |-> {}]
    ELSE LET items == AccountItems(login_users.users, 1, <<>>)
             cur == get_account(file)
         IN  IF items = <<>>
             THEN [mode |-> "fallback", items |-> FallbackItems,
                   initial_identifier |-> {}]
             ELSE [mode |-> "accounts", items |-> items,
                   initial_identifier |->
                       IF cur.exc # "none" THEN {}
                       ELSE MatchCurrent(items, cur.value)]

(***************************************************************************)
(* The inputs start-up is run on.                                          *)
(***************************************************************************)
AccountEntries ==
    {[AccountName |-> S_bob99, PersonaName |-> S_Bob],
     [AccountName |-> S_carol_w],
     [PersonaName |-> S_Bob],
     [AccountName |-> S_q_n, PersonaName |-> S_empty]}

RECURSIVE SeqsUpTo(_, _)
SeqsUpTo(S, n) ==
    IF n = 0 THEN {<<>>}
    ELSE LET shorter == SeqsUpTo(S, n - 1)
         IN  shorter \cup {Append(s, x) : s \in shorter, x \in S}

Unreadable == [readable |-> FALSE, users |-> <<>>]
Users(s) == [readable |-> TRUE, users |-> s]

LoginUsersFiles ==
    {Unreadable} \cup {Users(s) : s \in SeqsUpTo(AccountEntries, MaxAccounts)}

CliInputs == {<<>>, <<S_blank>>, <<S_TV_1, S_blank, S_HDMI>>}

SteamSections == {SubSeq(AutoLoginUser, 1, n) : n \in 1..(Len(AutoLoginUser) - 1)}
Other == <<"Other">>

\* a registry.vdf selecting account a, with an unrelated leaf and section
RegistryTree(a) ==
    [secs |-> SteamSections \cup {Other},
     vals |-> [p \in {AutoLoginUser, Language} |->
                 IF p = AutoLoginUser THEN a ELSE S_q_n]]

MissingFile == [exists |-> FALSE, text |-> EmptyText]
GarbageFile == [exists |-> TRUE, text |-> GarbageText]
Selecting(a) == [exists |-> TRUE, text |-> vdf_dump(RegistryTree(a))]
\* the Steam section without an AutoLoginUser leaf
NoLeafFile ==
    [exists |-> TRUE,
     text |-> vdf_dump([secs |-> SteamSections,
                        vals |-> [p \in {Language} |-> S_zed]])]
\* no Steam section at all
NoSectionFile ==
    [exists |-> TRUE,
     text |-> vdf_dump([secs |-> {<<"Registry">>, Other}, vals |-> EmptyVals])]

RegistryFiles ==
    {MissingFile, GarbageFile, Selecting(S_carol_w), Selecting(S_zed),
     NoLeafFile, NoSectionFile}

\* every start-up the bounds allow
StartupInputs ==
    [cli_inputs : CliInputs, login_users : LoginUsersFiles, file : RegistryFiles]

Bob == [AccountName |-> S_bob99, PersonaName |-> S_Bob]
Carol == [AccountName |-> S_carol_w]
Nameless == [PersonaName |-> S_Bob]
Quirk == [AccountName |-> S_q_n, PersonaName |-> S_empty]

\* the start-ups the handlers are run after
Scenarios ==
    {[cli_inputs |-> <<>>, login_users |-> Users(<<Bob, Carol>>),
      file |-> Selecting(S_carol_w)],
     [cli_inputs |-> <<>>, login_users |-> Users(<<Nameless, Quirk>>),
      file |-> NoLeafFile],
     [cli_inputs |-> <<>>, login_users |-> Unreadable, file |-> NoSectionFile],
     [cli_inputs |-> <<S_TV_1, S_blank, S_HDMI>>, login_users |-> Unreadable,
      file |-> Selecting(S_zed)]}

(***************************************************************************)
(* The accessory and the event loop.                                       *)
(***************************************************************************)
VARIABLES
    cli_inputs,             \* cli.inputs.split(","), <<>> when --inputs is empty
    login_users,            \* the file LOGIN_USERS (loginusers.vdf)
    registry_file,          \* the file REGISTRY (registry.vdf)
    inputs,                 \* self.inputs: the catalog, records (identifier, label, slug)
    id_to_label,            \* self.id_to_label
    id_to_slug,             \* self.id_to_slug
    catalog_mode,           \* which branch of __main__ built the catalog ("none": not yet run)
    active_identifier,      \* self.active_identifier
    is_active,              \* self.is_active
    active_char,            \* value of the Television service's Active characteristic
    power_restore_handle,   \* self._power_restore_handle: {} is None, {n} is timer n
    loop_timers,            \* the loop's call_later handles: [deadline, state]
    now,                    \* the loop's clock
    last_power,             \* the last set_active call
    power_cbs,              \* on_power_changed arguments since that call began
    last_input,             \* the last set_active_identifier call
    escaped,                \* the exception the last handler let out ("none")
    restarts,               \* killall requests since the last set_active call began
    set_value_failed,       \* set_value(1) raised in the last _restore_power
    startup_account,        \* get_account() when the accessory was constructed
    rmw                     \* a set_account between its read and its write

args == <<cli_inputs, login_users>>
catalog == <<inputs, id_to_label, id_to_slug, catalog_mode>>
power == <<is_active, active_char, power_restore_handle, loop_timers>>
selection == <<active_identifier, registry_file>>
vars == <<cli_inputs, login_users, registry_file, inputs, id_to_label,
          id_to_slug, catalog_mode, active_identifier, is_active, active_char,
          power_restore_handle, loop_timers, now, last_power, power_cbs,
          last_input, escaped, restarts, set_value_failed, startup_account,
          rmw>>

\* run counts the set_active(0) calls made in a row, each while the timer of
\* the one before was pending; offs counts their on_power_changed(False)
NoPowerCall ==
    [called |-> FALSE, value |-> 0, at |-> 0, scheduled |-> FALSE,
     had_pending |-> FALSE, kill_failed |-> FALSE, run |-> 0, offs |-> 0]

NotRead == [exc |-> "unread", value |-> None]

Idle == [phase |-> "idle", identifier |-> 0, label |-> None, slug |-> None,
         tree |-> EmptyTree, external |-> {}]

NoInputCall ==
    [called |-> FALSE, identifier |-> 0, exc |-> "none", raised |-> "none",
     cbs |-> <<>>]

\* the process before __main__ runs, on one of the start-ups in S
InitOn(S) ==
    /\ \E s \in S :
          /\ cli_inputs = s.cli_inputs
          /\ login_users = s.login_users
          /\ registry_file = s.file
    /\ inputs = <<>>
    /\ id_to_label = <<>>
    /\ id_to_slug = <<>>
    /\ catalog_mode = "none"
    /\ active_identifier = 0
    /\ is_active = 0
    /\ active_char = 0
    /\ power_restore_handle = {}
    /\ loop_timers = <<>>
    /\ now = 0
    /\ last_power = NoPowerCall
    /\ power_cbs = <<>>
    /\ last_input = NoInputCall
    /\ escaped = "none"
    /\ restarts = 0
    /\ set_value_failed = FALSE
    /\ startup_account = NotRead
    /\ rmw = Idle

Init == InitOn(Scenarios)

InitStartup == InitOn(StartupInputs)

\* {i: field for i, ... in input_items}: a later item replaces an earlier one
ItemDict(items, field) ==
    LET ids == {items[k].identifier : k \in 1..Len(items)}
        last(i) == CHOOSE k \in 1..Len(items) :
                      /\ items[k].identifier = i
                      /\ \A j \in 1..Len(items) : items[j].identifier = i => j <= k
    IN  [i \in ids |-> items[last(i)][field]]

\* a constructor that ignores initial_identifier
InitialIgnoresResolved(items, initial_identifier) ==
    IF items # <<>> THEN items[1].identifier ELSE 0

\* self.active_identifier = initial_identifier if initial_identifier is not None
\*     else (input_items[0][0] if input_items else 0)
InitialActiveIdentifier(items, initial_identifier) ==
    IF initial_identifier # {} THEN CHOOSE i \in initial_identifier : TRUE
    ELSE IF items # <<>> THEN items[1].identifier ELSE 0

\* __main__ resolves the catalog; run() constructs the accessory on it
Start ==
    /\ catalog_mode = "none"
    /\ \E r \in {ResolveInputs(cli_inputs, login_users, registry_file)} :
           /\ inputs' = r.items
           /\ id_to_label' = ItemDict(r.items, "label")
           /\ id_to_slug' = ItemDict(r.items, "slug")
           /\ catalog_mode' = r.mode
           /\ active_identifier' =
                  InitialActiveIdentifier(r.items, r.initial_identifier)
    /\ is_active' = 0
    /\ active_char' = 0
    /\ power_restore_handle' = {}
    /\ startup_account' = get_account(registry_file)
    /\ UNCHANGED <<args, registry_file, loop_timers, now, last_power, power_cbs,
                   last_input, escaped, restarts, set_value_failed, rmw>>

\* a cancel() that leaves the timer armed
CancelNoop(timers, handle) == timers

\* TimerHandle.cancel(): a timer that has not fired will not; otherwise a no-op
cancel(timers, handle) ==
    [n \in DOMAIN timers |->
        IF n \in handle /\ timers[n].state = "pending"
        THEN [timers[n] EXCEPT !.state = "cancelled"]
        ELSE timers[n]]

\* loop.call_later(delay, self._restore_power) at time t: the handle is the
\* new timer's number
call_later(timers, t, delay) ==
    Append(timers, [deadline |-> t + delay, state |-> "pending"])

\* a handler without the try/except around subprocess.run
OnPowerChangedRaises(is_on, kill_fails) ==
    [restart |-> ~is_on,
     exc |-> IF ~is_on /\ kill_fails THEN "FileNotFoundError" ELSE "none"]

\* a handler that restarts Steam whatever the power becomes
OnPowerChangedAlwaysRestarts(is_on, kill_fails) ==
    [restart |-> TRUE, exc |-> "none"]

\* def on_power_changed(is_on): killall steam when turning off; its failure is
\* logged and swallowed
on_power_changed(is_on, kill_fails) ==
    [restart |-> ~is_on, exc |-> "none"]

\* lines 278-284 without the cancel of the previous handle
ScheduleWithoutCancel(timers, handle, t, schedule_fails) ==
    IF schedule_fails THEN [timers |-> timers, handle |-> handle]
    ELSE [timers |-> call_later(timers, t, RestoreDelay),
          handle |-> {Len(timers) + 1}]

\* lines 278-284 with the cancel moved below the assignment of the new handle
ScheduleThenCancel(timers, handle, t, schedule_fails) ==
    IF schedule_fails THEN [timers |-> timers, handle |-> handle]
    ELSE [timers |-> cancel(call_later(timers, t, RestoreDelay),
                            {Len(timers) + 1}),
          handle |-> {Len(timers) + 1}]

\* if value == 0: try: cancel the previous handle, call_later(2.0, ...); a
\* failure of call_later is logged and leaves the (cancelled) handle in place
schedule_restore(timers, handle, t, schedule_fails) ==
    LET cancelled == IF handle # {} THEN cancel(timers, handle) ELSE timers
    IN  IF schedule_fails THEN [timers |-> cancelled, handle |-> handle]
        ELSE [timers |-> call_later(cancelled, t, RestoreDelay),
              handle |-> {Len(cancelled) + 1}]

\* a setter that leaves the handler alone when the power does not change
SetActiveSkipsUnchanged(value, schedule_fails, kill_fails) ==
    LET cancel_on == value = 1 /\ power_restore_handle # {}
        timers1 == IF cancel_on THEN cancel(loop_timers, power_restore_handle)
                   ELSE loop_timers
        handle1 == IF cancel_on THEN {} ELSE power_restore_handle
        sched == schedule_restore(timers1, handle1, now, schedule_fails)
    IN  [is_active |-> value,
         cbs |-> IF value = is_active THEN <<>> ELSE <<value = 1>>,
         restarts |-> IF value = 0 /\ value # is_active THEN 1 ELSE 0,
         raised |-> "none",
         timers |-> IF value = 0 THEN sched.timers ELSE timers1,
         handle |-> IF value = 0 THEN sched.handle ELSE handle1]

\* def set_active(self, value): the fields afterwards; an exception out of
\* on_power_changed would leave before the restore is scheduled
set_active(value, schedule_fails, kill_fails) ==
    LET cancel_on == value = 1 /\ power_restore_handle # {}
        timers1 == IF cancel_on THEN cancel(loop_timers, power_restore_handle)
                   ELSE loop_timers
        handle1 == IF cancel_on THEN {} ELSE power_restore_handle
        cb == on_power_changed(value = 1, kill_fails)
        reschedule == value = 0 /\ cb.exc = "none"
        sched == schedule_restore(timers1, handle1, now, schedule_fails)
    IN  [is_active |-> value,
         cbs |-> <<value = 1>>,
         restarts |-> IF cb.restart THEN 1 ELSE 0,
         raised |-> cb.exc,
         timers |-> IF reschedule THEN sched.timers ELSE timers1,
         handle |-> IF reschedule THEN sched.handle ELSE handle1]

Pending(timers) == {n \in DOMAIN timers : timers[n].state = "pending"}

\* the on_power_changed(False) calls among cbs
Offs(cbs) == Len(SelectSeq(cbs, LAMBDA is_on : ~is_on))

\* the record of a set_active call
PowerCall(value, schedule_fails, kill_fails, cbs) ==
    LET continues == value = 0 /\ Pending(loop_timers) # {}
    IN  [called |-> TRUE, value |-> value, at |-> now,
         scheduled |-> value = 0 /\ ~schedule_fails,
         had_pending |-> Pending(loop_timers) # {},
         kill_failed |-> value = 0 /\ kill_fails,
         run |-> IF value = 1 THEN 0
                 ELSE IF continues THEN last_power.run + 1 ELSE 1,
         offs |-> IF value = 1 THEN 0
                  ELSE IF continues THEN last_power.offs + Offs(cbs)
                  ELSE Offs(cbs)]

\* a power setter that also puts the selection back on the first input
SetActiveResetsInput(value, schedule_fails, kill_fails) ==
    /\ catalog_mode # "none"
    /\ value = 0 => Len(loop_timers) < MaxTimers
    /\ value = 1 => ~schedule_fails /\ ~kill_fails
    /\ \E r \in {set_active(value, schedule_fails, kill_fails)} :
           /\ is_active' = r.is_active
           /\ active_char' = value
           /\ power_restore_handle' = r.handle
           /\ loop_timers' = r.timers
           /\ power_cbs' = r.cbs
           /\ restarts' = r.restarts
           /\ escaped' = r.raised
           /\ last_power' = PowerCall(value, schedule_fails, kill_fails, r.cbs)
    /\ set_value_failed' = FALSE
    /\ active_identifier' = IF inputs # <<>> THEN inputs[1].identifier ELSE 0
    /\ UNCHANGED <<args, catalog, registry_file, now, last_input,
                   startup_account, rmw>>

\* the driver writes value to the Active characteristic and calls its setter
SetActive(value, schedule_fails, kill_fails) ==
    /\ catalog_mode # "none"
    /\ value = 0 => Len(loop_timers) < MaxTimers
    /\ value = 1 => ~schedule_fails /\ ~kill_fails
    /\ \E r \in {set_active(value, schedule_fails, kill_fails)} :
           /\ is_active' = r.is_active
           /\ active_char' = value
           /\ power_restore_handle' = r.handle
           /\ loop_timers' = r.timers
           /\ power_cbs' = r.cbs
           /\ restarts' = r.restarts
           /\ escaped' = r.raised
           /\ last_power' = PowerCall(value, schedule_fails, kill_fails, r.cbs)
    /\ set_value_failed' = FALSE
    /\ UNCHANGED <<args, catalog, selection, now, last_input, startup_account,
                   rmw>>

\* a restore that clears the handle and reports On, but leaves is_active alone
RestoreKeepsPower(set_value_fails) ==
    [handle |-> {},
     is_active |-> is_active,
     active_char |-> IF set_value_fails THEN active_char ELSE 1,
     cbs |-> <<TRUE>>,
     restarts |-> 0,
     raised |-> "none"]

\* a restore that does not update the Active characteristic
RestoreSkipsSetValue(set_value_fails) ==
    [handle |-> {},
     is_active |-> 1,
     active_char |-> active_char,
     cbs |-> <<TRUE>>,
     restarts |-> 0,
     raised |-> "none"]

\* def _restore_power(self): the fields afterwards
_restore_power(set_value_fails) ==
    LET cb == on_power_changed(TRUE, FALSE)
    IN  [handle |-> {},
         is_active |-> 1,
         active_char |-> IF set_value_fails THEN active_char ELSE 1,
         cbs |-> <<TRUE>>,
         restarts |-> IF cb.restart THEN 1 ELSE 0,
         raised |-> cb.exc]

\* the loop runs a due timer's callback
RestorePower(set_value_fails) ==
    /\ catalog_mode # "none"
    /\ \E n \in Pending(loop_timers) :
          /\ loop_timers[n].deadline <= now
          /\ loop_timers' = [loop_timers EXCEPT ![n].state = "fired"]
    /\ \E r \in {_restore_power(set_value_fails)} :
           /\ power_restore_handle' = r.handle
           /\ is_active' = r.is_active
           /\ active_char' = r.active_char
           /\ power_cbs' = power_cbs \o r.cbs
           /\ restarts' = restarts + r.restarts
           /\ escaped' = r.raised
    /\ set_value_failed' = set_value_fails
    /\ UNCHANGED <<args, catalog, selection, now, last_power, last_input,
                   startup_account, rmw>>

\* a handler that writes the input's label instead of its slug
OnInputChangedWritesLabel(file, identifier, label, slug, fault) ==
    LET w == set_account(file, label, fault)
    IN  [file |-> w.file, write_exc |-> w.exc, exc |-> "none"]

\* def on_input_changed(identifier, label, slug): set_account(slug), whose
\* failure is logged and swallowed
on_input_changed(file, identifier, label, slug, fault) ==
    LET w == set_account(file, slug, fault)
    IN  [file |-> w.file, write_exc |-> w.exc, exc |-> "none"]

\* a setter that rejects an identifier it does not know
SetActiveIdentifierRejectsUnknown(value, fault) ==
    LET label == IF value \in DOMAIN id_to_label THEN id_to_label[value]
                 ELSE S_Unknown
        slug == IF value \in DOMAIN id_to_slug THEN id_to_slug[value] ELSE S_dash
        h == on_input_changed(registry_file, value, label, slug, fault)
    IN  IF value \notin DOMAIN id_to_slug
        THEN [active_identifier |-> active_identifier,
              file |-> registry_file,
              write_exc |-> "none",
              raised |-> "ValueError",
              cbs |-> <<>>]
        ELSE [active_identifier |-> value,
              file |-> h.file,
              write_exc |-> h.write_exc,
              raised |-> h.exc,
              cbs |-> <<[identifier |-> value, label |-> label, slug |-> slug]>>]

\* def set_active_identifier(self, value): the fields afterwards
set_active_identifier(value, fault) ==
    LET label == IF value \in DOMAIN id_to_label THEN id_to_label[value]
                 ELSE S_Unknown
        slug == IF value \in DOMAIN id_to_slug THEN id_to_slug[value] ELSE S_dash
        h == on_input_changed(registry_file, value, label, slug, fault)
    IN  [active_identifier |-> value,
         file |-> h.file,
         write_exc |-> h.write_exc,
         raised |-> h.exc,
         cbs |-> <<[identifier |-> value, label |-> label, slug |-> slug]>>]

\* the identifiers the driver may write: as many as the catalog has inputs,
\* and one more, so that one of them at least is unknown
Identifiers == 1..(Len(inputs) + 1)

\* the driver calls the ActiveIdentifier setter
SetActiveIdentifier(value, fault) ==
    /\ catalog_mode # "none"
    /\ \E r \in {set_active_identifier(value, fault)} :
           /\ active_identifier' = r.active_identifier
           /\ registry_file' = r.file
           /\ last_input' = [called |-> TRUE, identifier |-> value,
                             exc |-> r.write_exc, raised |-> r.raised,
                             cbs |-> r.cbs]
           /\ escaped' = r.raised
    /\ UNCHANGED <<args, catalog, power, now, last_power, power_cbs, restarts,
                   set_value_failed, startup_account, rmw>>

\* time passes, but not beyond a timer that is due
Tick ==
    /\ catalog_mode # "none"
    /\ now < MaxTime
    /\ \A n \in Pending(loop_timers) : loop_timers[n].deadline > now
    /\ now' = now + 1
    /\ UNCHANGED <<args, catalog, power, selection, last_power, power_cbs,
                   last_input, escaped, restarts, set_value_failed,
                   startup_account, rmw>>

Next ==
    \/ Start
    \/ \E value \in {0, 1}, schedule_fails \in BOOLEAN, kill_fails \in BOOLEAN :
          SetActive(value, schedule_fails, kill_fails)
    \/ \E set_value_fails \in BOOLEAN : RestorePower(set_value_fails)
    \/ \E value \in Identifiers, fault \in IOFaults :
          SetActiveIdentifier(value, fault)
    \/ Tick

Spec == Init /\ [][Next]_vars

\* start-up alone, on every input the bounds allow
SpecStartup == InitStartup /\ [][Start]_vars

(***************************************************************************)
(* set_account next to another writer of registry.vdf (Steam itself): the  *)
(* file is not locked, so the other writer can run between the read and    *)
(* the write of set_account.                                               *)
(***************************************************************************)
\* the leaves the other writer sets, and the values it gives them
ExternalKeys == {AutoLoginUser, Language}
ExternalValues == {S_zed, S_Bob}

\* set_active_identifier down to the end of set_account's read and assignment
BeginSetActiveIdentifier(value) ==
    /\ catalog_mode # "none"
    /\ rmw.phase # "read"
    /\ active_identifier' = value
    /\ LET label == IF value \in DOMAIN id_to_label THEN id_to_label[value]
                     ELSE S_Unknown
           slug == IF value \in DOMAIN id_to_slug THEN id_to_slug[value]
                    ELSE S_dash
       IN  \E m \in {set_account_read(registry_file, slug)} :
              IF m.exc # "none"
              THEN /\ rmw' = Idle
                   /\ last_input' =
                          [called |-> TRUE, identifier |-> value,
                           exc |-> m.exc, raised |-> "none",
                           cbs |-> <<[identifier |-> value, label |-> label,
                                      slug |-> slug]>>]
              ELSE /\ rmw' = [phase |-> "read", identifier |-> value,
                              label |-> label, slug |-> slug,
                              tree |-> m.tree, external |-> {}]
                   /\ UNCHANGED last_input
    /\ UNCHANGED <<args, catalog, power, registry_file, now, last_power,
                   power_cbs, escaped, restarts, set_value_failed,
                   startup_account>>

\* the other writer rewrites a readable registry.vdf with one leaf changed
ExternalWrite(key, v) ==
    /\ catalog_mode # "none"
    /\ vdf_load(registry_file).exc = "none"
    /\ key \in DOMAIN vdf_load(registry_file).tree.vals
    /\ vdf_load(registry_file).tree.vals[key] # v
    /\ registry_file' =
          [exists |-> TRUE,
           text |-> vdf_dump([vdf_load(registry_file).tree
                                 EXCEPT !.vals[key] = v])]
    /\ rmw' = IF rmw.phase = "read"
              THEN [rmw EXCEPT !.external = @ \cup {key}]
              ELSE Idle
    /\ UNCHANGED <<args, catalog, power, active_identifier, now, last_power,
                   power_cbs, last_input, escaped, restarts, set_value_failed,
                   startup_account>>

\* the rest of set_account, and the return through on_input_changed
EndSetActiveIdentifier(fault) ==
    /\ rmw.phase = "read"
    /\ \E w \in {set_account_write(registry_file, rmw.tree, fault)} :
          /\ registry_file' = w.file
          /\ last_input' =
                 [called |-> TRUE, identifier |-> rmw.identifier,
                  exc |-> w.exc, raised |-> "none",
                  cbs |-> <<[identifier |-> rmw.identifier,
                             label |-> rmw.label, slug |-> rmw.slug]>>]
    /\ rmw' = [rmw EXCEPT !.phase = "written"]
    /\ UNCHANGED <<args, catalog, power, active_identifier, now, last_power,
                   power_cbs, escaped, restarts, set_value_failed,
                   startup_account>>

NextRace ==
    \/ Start
    \/ \E value \in Identifiers : BeginSetActiveIdentifier(value)
    \/ \E key \in ExternalKeys, v \in ExternalValues : ExternalWrite(key, v)
    \/ \E fault \in IOFaults : EndSetActiveIdentifier(fault)

SpecRace == Init /\ [][NextRace]_vars

(***************************************************************************)
(* Power and the auto-restore timer.                                       *)
(***************************************************************************)
Fired(timers) == {n \in DOMAIN timers : timers[n].state = "fired"}
Cancelled(timers) == {n \in DOMAIN timers : timers[n].state = "cancelled"}

\* the last set_active call was set_active(0), and the restore delay has
\* elapsed since
OffAndDelayElapsed ==
    /\ last_power.called
    /\ last_power.value = 0
    /\ now > last_power.at + RestoreDelay

C2_OnCancelsRestore ==
    last_power.called /\ last_power.value = 1
        => /\ power_restore_handle = {}
           /\ Pending(loop_timers) = {}
           /\ power_cbs = <<TRUE>>

\* set_active(1) came while a timer was armed, and the clock is past the
\* time the cancelled timer was due
C2_Witness ==
    /\ last_power.called
    /\ last_power.value = 1
    /\ last_power.had_pending
    /\ \E n \in Cancelled(loop_timers) :
          /\ loop_timers[n].deadline > last_power.at
          /\ loop_timers[n].deadline < now
    /\ power_cbs = <<TRUE>>

\* C3: at most one restore timer is outstanding (scheduled, neither fired
\* nor cancelled) in every reachable state.
C3_AtMostOneTimer == Cardinality(Pending(loop_timers)) <= 1

\* a set_active(0) replaced an armed timer by a new one
C3_Witness ==
    /\ last_power.called
    /\ last_power.value = 0
    /\ last_power.had_pending
    /\ Cancelled(loop_timers) # {}
    /\ Pending(loop_timers) # {}

(***************************************************************************)
(* Power and input selection.                                              *)
(***************************************************************************)
\* C4: a step that sets power or fires the restore timer leaves
\* active_identifier and registry.vdf (so the selected account) unchanged,
\* and a step that sets the active identifier leaves is_active, the Active
\* characteristic, the restore handle and the loop's timers unchanged.
C4_Orthogonal ==
    [][catalog_mode # "none" =>
          /\ (power' # power \/ last_power' # last_power \/ power_cbs' # power_cbs)
                => UNCHANGED selection
          /\ (selection' # selection \/ last_input' # last_input)
                => UNCHANGED power]_vars

\* the selection was changed and written, and a restore timer has fired, with
\* the written selection still in place
C4_Witness ==
    /\ last_input.called
    /\ last_input.exc = "none"
    /\ Fired(loop_timers) # {}
    /\ last_power.called
    /\ active_identifier = last_input.identifier
    /\ get_account(registry_file).value = last_input.cbs[1].slug

(***************************************************************************)
(* Input selection and the settings registry.                              *)
(***************************************************************************)
\* C5: with a catalog built from accounts, after a set_active_identifier
\* call with the identifier of a built input whose settings write succeeded,
\* get_account() returns the slug (AccountName) of the input whose identifier
\* is active_identifier.
C5_SelectionPersisted ==
    /\ catalog_mode = "accounts"
    /\ last_input.called
    /\ last_input.identifier \in DOMAIN id_to_slug
    /\ last_input.exc = "none"
    => get_account(registry_file) =
           [exc |-> "none", value |-> id_to_slug[active_identifier]]

\* the catalog [(1, Bob, bob99), (2, carol_w, carol_w)], set_active_identifier(1)
C5_Witness ==
    /\ catalog_mode = "accounts"
    /\ inputs = <<[identifier |-> 1, label |-> S_Bob, slug |-> S_bob99],
                 [identifier |-> 2, label |-> S_carol_w, slug |-> S_carol_w]>>
    /\ last_input.called
    /\ last_input.identifier = 1
    /\ last_input.exc = "none"
    /\ active_identifier = 1
    /\ get_account(registry_file) = [exc |-> "none", value |-> S_bob99]

\* a step changed the selection or the record of the last
\* set_active_identifier call: it is a set_active_identifier call
InputStep ==
    catalog_mode # "none" /\ (selection' # selection \/ last_input' # last_input)

\* C6 as stated: when the settings write of set_active_identifier(i) fails,
\* the call still ends normally with active_identifier = i, and the selected
\* account read back from registry.vdf (None when it cannot be read) is what
\* it was before the call.
C6_FailedWriteKeepsSelection ==
    [][InputStep /\ last_input'.exc # "none" =>
          /\ last_input'.raised = "none"
          /\ active_identifier' = last_input'.identifier
          /\ get_account(registry_file').value = get_account(registry_file).value]_vars

\* C7: set_active_identifier with an identifier that is not in the catalog
\* does not raise, sets active_identifier to it, and calls on_input_changed
\* exactly once, with label "Unknown" and slug "-".
C7_UnknownIdentifier ==
    last_input.called /\ last_input.identifier \notin DOMAIN id_to_slug
        => /\ last_input.raised = "none"
           /\ active_identifier = last_input.identifier
           /\ last_input.cbs = <<[identifier |-> last_input.identifier,
                                  label |-> S_Unknown, slug |-> S_dash]>>

C7_Witness ==
    /\ last_input.called
    /\ inputs # <<>>
    /\ last_input.identifier \notin DOMAIN id_to_slug
    /\ active_identifier = last_input.identifier
    /\ Len(last_input.cbs) = 1
    /\ last_input.cbs[1].label = S_Unknown

(***************************************************************************)
(* The catalog.                                                            *)
(***************************************************************************)
\* C8 as stated: a catalog built from the accounts registry or from override
\* labels, with N >= 1 inputs, has the identifiers 1..N in order.
C8_DenseIdentifiers ==
    catalog_mode \in {"accounts", "override"} /\ inputs # <<>>
        => \A k \in 1..Len(inputs) : inputs[k].identifier = k

(***************************************************************************)
(* set_account and get_account.                                            *)
(***************************************************************************)
\* C9 as stated: a set_account that fails leaves registry.vdf with exactly
\* the content it had.
C9_AllOrNothing ==
    [][last_input'.called /\ last_input'.exc # "none"
          => registry_file' = registry_file]_vars

\* registry.vdf parses and has the nested sections down to the Steam section
WellFormed(file) ==
    vdf_load(file).exc = "none" /\ HasSteamSection(vdf_load(file).tree)

\* the exceptions of open(REGISTRY, 'w') and of the write itself
IOErrors == {"PermissionError", "OSError"}

\* C10: on a well-formed registry.vdf, set_account(a) that meets no I/O error
\* returns normally, and get_account() then returns a.
C10_RoundTrip ==
    [][InputStep /\ WellFormed(registry_file) /\ last_input'.exc \notin IOErrors
          => /\ last_input'.exc = "none"
             /\ Len(last_input'.cbs) = 1
             /\ get_account(registry_file') =
                    [exc |-> "none", value |-> last_input'.cbs[1].slug]]_vars

\* an account name that needs escaping was written over a file without the
\* leaf, and reads back
C10_Witness ==
    /\ last_input.called
    /\ last_input.exc = "none"
    /\ Len(last_input.cbs) = 1
    /\ last_input.cbs[1].slug = S_q_n
    /\ vdf_escape(S_q_n) # S_q_n
    /\ get_account(registry_file) = [exc |-> "none", value |-> S_q_n]

\* the parsed registry.vdf
Tree(file) == vdf_load(file).tree

\* C11: a set_account that succeeds changes only the AutoLoginUser leaf: the
\* tree read back has the same sections, and every other leaf has the value
\* it had.
C11_OnlyTheLeafChanges ==
    [][InputStep /\ last_input'.exc = "none" =>
          /\ Tree(registry_file').secs = Tree(registry_file).secs
          /\ DOMAIN Tree(registry_file').vals \ {AutoLoginUser}
                 = DOMAIN Tree(registry_file).vals \ {AutoLoginUser}
          /\ \A p \in DOMAIN Tree(registry_file).vals \ {AutoLoginUser} :
                Tree(registry_file').vals[p] = Tree(registry_file).vals[p]]_vars

\* the selected account was changed from carol_w to bob99 in a file with an
\* unrelated leaf (whose value needs escaping) and an unrelated section
C11_Witness ==
    /\ last_input.called
    /\ last_input.exc = "none"
    /\ get_account(registry_file).value = S_bob99
    /\ Language \in DOMAIN Tree(registry_file).vals
    /\ Tree(registry_file).vals[Language] = S_q_n
    /\ Other \in Tree(registry_file).secs

(***************************************************************************)
(* Construction.                                                           *)
(***************************************************************************)
\* the identifiers of the built inputs whose slug is the account that
\* registry.vdf selects (none when it cannot be read)
SelectedInputs ==
    {inputs[k].identifier :
        k \in {j \in 1..Len(inputs) :
                 /\ get_account(registry_file).exc = "none"
                 /\ inputs[j].slug = get_account(registry_file).value}}

\* C13: once the accessory is constructed, power is Off with no restore timer,
\* and active_identifier is the identifier of the built input whose slug is
\* the selected account when the catalog was built from accounts, the read
\* succeeds and a match exists; otherwise it is the first input's identifier,
\* or 0 when the catalog is empty.
C13_InitialState ==
    catalog_mode # "none" =>
        /\ is_active = 0
        /\ power_restore_handle = {}
        /\ loop_timers = <<>>
        /\ IF catalog_mode = "accounts" /\ SelectedInputs # {}
           THEN active_identifier \in SelectedInputs
           ELSE IF inputs # <<>> THEN active_identifier = inputs[1].identifier
           ELSE active_identifier = 0

\* the selected account is the second input's
C13_Witness ==
    /\ catalog_mode = "accounts"
    /\ Len(inputs) = 2
    /\ inputs[1].slug = S_bob99
    /\ inputs[2].slug = S_carol_w
    /\ get_account(registry_file).value = S_carol_w
    /\ active_identifier = inputs[2].identifier
    /\ active_identifier # inputs[1].identifier

\* no entry of loginusers.vdf has a non-empty AccountName
NoUsableAccount ==
    \A k \in 1..Len(login_users.users) :
        \/ "AccountName" \notin DOMAIN login_users.users[k]
        \/ login_users.users[k]["AccountName"] = <<>>

\* C14: without override labels, when loginusers.vdf cannot be read or has no
\* usable account, the accessory is constructed on the two fallback inputs,
\* with identifiers 1 and 2, and active_identifier starts at 1.
C14_Fallback ==
    /\ catalog_mode # "none"
    /\ cli_inputs = <<>>
    /\ ~login_users.readable \/ NoUsableAccount
    => /\ catalog_mode = "fallback"
       /\ inputs = <<[identifier |-> 1, label |-> S_SteamUser1, slug |-> S_user1],
                    [identifier |-> 2, label |-> S_SteamUser2, slug |-> S_user2]>>
       /\ DOMAIN id_to_slug = {1, 2}
       /\ active_identifier = 1

\* a readable loginusers.vdf whose entries all lack an AccountName
C14_Witness ==
    /\ catalog_mode = "fallback"
    /\ cli_inputs = <<>>
    /\ login_users.readable
    /\ login_users.users # <<>>
    /\ NoUsableAccount
    /\ Len(inputs) = 2
    /\ active_identifier = 1

(***************************************************************************)
(* Failures of the handlers' side effects.                                 *)
(***************************************************************************)
\* C12: no failure of killall or of the registry write escapes set_active,
\* set_active_identifier or _restore_power: none of them lets an exception
\* out, and each applies its state change (is_active, the restore timer,
\* active_identifier) whether the side effect succeeded or failed.
C12_NoFailureEscapes ==
    /\ escaped = "none"
    /\ last_input.called =>
          /\ last_input.raised = "none"
          /\ active_identifier = last_input.identifier
    /\ last_power.called /\ Len(power_cbs) = 1 =>
          /\ is_active = last_power.value
          /\ last_power.scheduled => Pending(loop_timers) # {}
    /\ last_power.called /\ Len(power_cbs) = 2 => is_active = 1

\* killall failed in the last set_active(0) and the registry write failed in
\* the last set_active_identifier, and both calls took effect
C12_Witness ==
    /\ last_power.called
    /\ last_power.kill_failed
    /\ is_active = 0
    /\ Pending(loop_timers) # {}
    /\ last_input.called
    /\ last_input.exc \in IOErrors
    /\ active_identifier = last_input.identifier
    /\ escaped = "none"

(***************************************************************************)
(* Repeated set_active(0).                                                 *)
(***************************************************************************)
\* the last set_active(0) has not been followed by a restore yet
OffNotRestored ==
    /\ last_power.called
    /\ last_power.value = 0
    /\ power_cbs = <<FALSE>>

\* the only pending timer is the one the last call scheduled
FreshTimerPending ==
    /\ power_restore_handle # {}
    /\ Pending(loop_timers) = power_restore_handle
    /\ \A n \in power_restore_handle :
          loop_timers[n].deadline = last_power.at + RestoreDelay

C16_RestartOnlyOnOff ==
    /\ restarts = Offs(power_cbs)
    /\ restarts = IF last_power.called /\ last_power.value = 0 THEN 1 ELSE 0

\* after a set_active(0), its restore and a set_active_identifier, one restart
C16_Witness ==
    /\ last_power.called
    /\ last_power.value = 0
    /\ power_cbs = <<FALSE, TRUE>>
    /\ last_input.called
    /\ restarts = 1

(***************************************************************************)
(* What the registry can come to hold.                                     *)
(***************************************************************************)
\* the AccountName values of loginusers.vdf
ListedAccounts ==
    {login_users.users[k]["AccountName"] :
        k \in {j \in 1..Len(login_users.users) :
                 "AccountName" \in DOMAIN login_users.users[j]}}

\* C18: with a catalog built from accounts, whatever identifiers
\* set_active_identifier is called with, an AutoLoginUser that can be read
\* from registry.vdf is the one found at start-up or the AccountName of a
\* listed account.
C18_OnlyListedAccounts ==
    catalog_mode = "accounts" /\ get_account(registry_file).exc = "none" =>
        \/ get_account(registry_file).value \in ListedAccounts
        \/ /\ startup_account.exc = "none"
           /\ get_account(registry_file).value = startup_account.value

(***************************************************************************)
(* Power Off and the pending timer; the Active characteristic.             *)
(***************************************************************************)
\* C19: after a set_active call whose call_later did not raise, is_active = 0
\* implies that the restore timer is pending, and it is due RestoreDelay
\* after the call at the latest: only the accessory that was never commanded
\* stays Off.
C19_OffImpliesPending ==
    last_power.called /\ last_power.scheduled /\ is_active = 0 =>
        /\ Pending(loop_timers) # {}
        /\ Pending(loop_timers) = power_restore_handle
        /\ now <= last_power.at + RestoreDelay

\* Off, rescheduled over a pending timer, at the moment the timer is due
C19_Witness ==
    /\ last_power.called
    /\ last_power.scheduled
    /\ last_power.had_pending
    /\ is_active = 0
    /\ Pending(loop_timers) # {}
    /\ now = last_power.at + RestoreDelay

WrittenBack == rmw.phase = "written" /\ last_input.exc = "none"

\* C17: set_account does not lock registry.vdf: when its write-back succeeds,
\* the file holds the tree it had read with the new AutoLoginUser in it, and
\* every leaf that another writer changed between the read and the write has
\* the value set_account had read, not the one the other writer gave it.
C17_StaleWriteBack ==
    WrittenBack =>
        /\ Tree(registry_file) = rmw.tree
        /\ get_account(registry_file).value = rmw.slug

\* the other writer changed the language leaf between the read and the write,
\* and the language read before is back in the file
C17_Witness ==
    /\ WrittenBack
    /\ Language \in rmw.external
    /\ Tree(registry_file).vals[Language] = S_q_n
    /\ get_account(registry_file).value = rmw.slug

====
